---- MODULE Spec2Model ----
(***************************************************************************)
(* A model of the file-backed document store of src/main.go: one Driver    *)
(* over a root directory, called concurrently by a fixed set of callers.   *)
(* The file system is a map from paths (relative to Driver.dir) to nodes;  *)
(* every system call of a handler is one atomic step, so that the          *)
(* interleavings of Write, Read, ReadAll and Delete are those the Go       *)
(* scheduler can produce.                                                  *)
(***************************************************************************)
EXTENDS Integers, Sequences, FiniteSets, Bags, TLC

VARIABLES
    fs,       \* the directory tree under Driver.dir: path -> node
    mu,       \* holder of Driver.mu, or "none"
    mutexes,  \* Driver.mutexes: collection name -> lock (index into locks)
    locks,    \* every sync.Mutex ever allocated: [name, holder]
    st,       \* per caller: program counter, arguments, locals, results
    ncalls,   \* number of calls issued so far
    alone     \* history: the caller's current call has run with no other call active

vars == <<fs, mu, mutexes, locks, st, ncalls, alone>>

(***************************************************************************)
(* Bounds and input domains.                                               *)
(***************************************************************************)
MaxCalls == 2

Procs == {"p1", "p2"}

\* Names used both as collection and as resource arguments.  "a.json" is
\* there because stat() and Read append ".json" to what they are given.
Names == {"", "a", "a.json"}

\* "chan" stands for a Go value json.MarshalIndent rejects.
Values == {"v1", "v2", "chan"}

NoValue == "-"
NoErr == "-"

(***************************************************************************)
(* Paths.  A path is the sequence of its elements below Driver.dir.        *)
(***************************************************************************)
Root == <<>>

\* filepath.Join drops empty elements.
Join(elems) == SelectSeq(elems, LAMBDA e : e # "")

\* path + ext on the path's string.  The root's own string with a suffix
\* names a sibling of the root, which is outside the tree.
AddExt(path, ext) ==
    IF path = Root THEN <<"..", ext>>
    ELSE [path EXCEPT ![Len(path)] = @ \o ext]

Parent(path) == SubSeq(path, 1, Len(path) - 1)

IsPrefix(p, q) == Len(p) <= Len(q) /\ SubSeq(q, 1, Len(p)) = p

DirNode == [dir |-> TRUE, data |-> <<>>]
FileNode(d) == [dir |-> FALSE, data |-> d]

Exists(f, path) == path \in DOMAIN f
IsDir(f, path) == Exists(f, path) /\ f[path].dir
IsRegular(f, path) == Exists(f, path) /\ ~f[path].dir

\* f with path bound to node (path added when absent).
Put(f, path, node) ==
    [q \in DOMAIN f \cup {path} |-> IF q = path THEN node ELSE f[q]]

\* f without the paths in gone.
Drop(f, gone) == [q \in DOMAIN f \ gone |-> f[q]]

(***************************************************************************)
(* System calls, as functions of the tree.                                 *)
(***************************************************************************)
NoFi == [found |-> FALSE, name |-> "", dir |-> FALSE]

\* os.Stat: the FileInfo of path (its base name and mode), or not-exist.
OsStat(f, path) ==
    IF Exists(f, path)
    THEN [found |-> TRUE,
          name |-> IF path = Root THEN "." ELSE path[Len(path)],
          dir |-> f[path].dir]
    ELSE NoFi

\* stat(): probe path, then path + ".json".
Stat(f, path) ==
    IF ~OsStat(f, path).found THEN OsStat(f, AddExt(path, ".json"))
    ELSE OsStat(f, path)

\* os.MkdirAll: every missing ancestor and path itself become directories;
\* fails when one of them is a regular file.
MkdirAll(f, path) ==
    LET pre == {SubSeq(path, 1, k) : k \in 0..Len(path)}
    IN  IF \E q \in pre : IsRegular(f, q)
        THEN [ok |-> FALSE, fs |-> f]
        ELSE [ok |-> TRUE,
              fs |-> [q \in DOMAIN f \cup pre |->
                         IF q \in DOMAIN f THEN f[q] ELSE DirNode]]

\* A faulty variant: unlinking the one name and leaving what is beneath it.
RemoveAll_PathOnly(f, path) == Drop(f, {path})

\* os.RemoveAll: path and everything beneath it; no error when absent.
RemoveAll(f, path) == Drop(f, {q \in DOMAIN f : IsPrefix(path, q)})

\* Every entry name the model's inputs can create, in byte order of the
\* names: ioutil.ReadDir returns the entries sorted by file name.
NameOrder ==
    <<".json", ".json.tmp",
      "a", "a.json", "a.json.json", "a.json.json.tmp", "a.json.tmp">>

\* ioutil.ReadDir: the sorted entry names of a directory.
ReadDir(f, dir) ==
    IF ~IsDir(f, dir) THEN [ok |-> FALSE, names |-> <<>>]
    ELSE [ok |-> TRUE,
          names |-> SelectSeq(NameOrder, LAMBDA n : Exists(f, Append(dir, n)))]

\* ioutil.ReadFile: the whole content, as it is at this moment.
ReadFile(f, path) ==
    IF IsRegular(f, path) THEN [err |-> "OK", data |-> f[path].data]
    ELSE IF IsDir(f, path) THEN [err |-> "EIsDir", data |-> <<>>]
    ELSE [err |-> "ENotFound", data |-> <<>>]

\* os.Rename of a regular file within one directory: the old name goes,
\* the new name holds the old name's node, in one step.
Rename(f, old, new) ==
    IF ~IsRegular(f, old) \/ IsDir(f, new) \/ ~IsDir(f, Parent(new))
    THEN [ok |-> FALSE, fs |-> f]
    ELSE [ok |-> TRUE, fs |-> Put(Drop(f, {old}), new, f[old])]

(***************************************************************************)
(* JSON.  A document is a sequence of tokens; Marshal yields the value's   *)
(* text followed by the newline Write appends.                             *)
(***************************************************************************)
Serializable(v) == v # "chan"

\* json.MarshalIndent(v, "", "\t") followed by append(b, '\n').
Marshal(v) == <<v, "\n">>

\* json.Unmarshal: one value, then white space only.
Unmarshal(b) ==
    IF Len(b) >= 1 /\ b[1] # "\n" /\ \A i \in 2..Len(b) : b[i] = "\n"
    THEN [ok |-> TRUE, v |-> b[1]]
    ELSE [ok |-> FALSE, v |-> NoValue]

(***************************************************************************)
(* The paths the handlers compute.                                         *)
(***************************************************************************)
\* Write: dir := filepath.Join(d.dir, collection)
CollectionDir(c) == Join(<<c>>)

\* Write: fnlPath := filepath.Join(dir, resources+".json")
FnlPath(c, r) == Join(<<c, r \o ".json">>)

\* A faulty variant: Write producing the file in place, under its final name.
TmpPath_InPlace(fnl) == fnl

\* Write: tmpPath := fnlPath + ".tmp"
TmpPath(fnl) == AddExt(fnl, ".tmp")

\* Read: record := filepath.Join(d.dir, collection, resource+".json")
ReadRecord(c, r) == Join(<<c, r \o ".json">>)

\* Read: the file it opens, ioutil.ReadFile(record + ".json")
ReadTarget(record) == AddExt(record, ".json")

\* Delete: dir := filepath.Join(d.dir, filepath.Join(collection, resource))
DeleteDir(c, r) == Join(<<c, r>>)

\* A faulty variant: Delete removing dir as given, whatever stat() resolved.
DeleteTarget_Bare(dir, fi) == dir

\* Delete: what it removes, by the mode stat() reported.
DeleteTarget(dir, fi) == IF fi.dir THEN dir ELSE AddExt(dir, ".json")

(***************************************************************************)
(* Callers.                                                                *)
(***************************************************************************)
Idle(p) == st[p].pc \in {"idle", "ret"}

\* The locals of a call that has just been made.
Frame(op, c, r, v, pc, err) ==
    [pc |-> pc, op |-> op, collection |-> c, resource |-> r, v |-> v,
     m |-> 0, fi |-> NoFi, files |-> <<>>, records |-> <<>>,
     err |-> err, out |-> NoValue]

\* p makes a call: the other callers' calls are no longer alone, and p's is
\* alone when nobody else is inside a call.
Begin(p, frame) ==
    /\ Idle(p)
    /\ ncalls < MaxCalls
    /\ ncalls' = ncalls + 1
    /\ st' = [st EXCEPT ![p] = frame]
    /\ alone' = [q \in Procs |-> IF q = p THEN \A o \in Procs \ {p} : Idle(o)
                                 ELSE FALSE]

\* p returns err (and, for Read, out).
Return(p, err, out) ==
    st' = [st EXCEPT ![p] = [@ EXCEPT !.pc = "ret", !.err = err, !.out = out,
                                      !.m = 0, !.fi = NoFi, !.files = <<>>]]

Goto(p, pc) == st' = [st EXCEPT ![p].pc = pc]

\* A return path that does not run the deferred mutex.Unlock()
Unlock_Skipped(p) == UNCHANGED locks

\* The deferred mutex.Unlock() of Write and Delete.
Unlock(p) == locks' = [locks EXCEPT ![st[p].m].holder = "none"]

(***************************************************************************)
(* getOrCreateMutex (called by Write and Delete).                          *)
(***************************************************************************)
\* A faulty variant: the registry read and written without taking d.mu.
GetMutexLock_NoMu(p) ==
    /\ st[p].pc = "G_lock"
    /\ Goto(p, "G_lookup")
    /\ UNCHANGED <<fs, mu, mutexes, locks, ncalls, alone>>

\* d.mu.Lock()
GetMutexLock(p) ==
    /\ st[p].pc = "G_lock"
    /\ mu = "none"
    /\ mu' = p
    /\ Goto(p, "G_lookup")
    /\ UNCHANGED <<fs, mutexes, locks, ncalls, alone>>

\* getOrCreateMutex without the `if !ok`: a new lock on every call
GetMutexLookup_AlwaysCreate(p) ==
    /\ st[p].pc = "G_lookup"
    /\ Goto(p, "G_create")
    /\ UNCHANGED <<fs, mu, mutexes, locks, ncalls, alone>>

\* getOrCreateMutex whose finding path returns without d.mu.Unlock()
GetMutexLookup_KeepMu(p) ==
    /\ st[p].pc = "G_lookup"
    /\ IF st[p].collection \in DOMAIN mutexes
       THEN st' = [st EXCEPT ![p] = [@ EXCEPT !.pc = "M_lock",
                                              !.m = mutexes[st[p].collection]]]
       ELSE Goto(p, "G_create")
    /\ UNCHANGED <<fs, mu, mutexes, locks, ncalls, alone>>

\* m, ok := d.mutexes[collection]; when ok: return m, d.mu.Unlock() deferred
GetMutexLookup(p) ==
    /\ st[p].pc = "G_lookup"
    /\ IF st[p].collection \in DOMAIN mutexes
       THEN /\ st' = [st EXCEPT ![p] = [@ EXCEPT !.pc = "M_lock",
                                                 !.m = mutexes[st[p].collection]]]
            /\ mu' = "none"
       ELSE /\ Goto(p, "G_create")
            /\ UNCHANGED mu
    /\ UNCHANGED <<fs, mutexes, locks, ncalls, alone>>

\* getOrCreateMutex whose creating path returns without d.mu.Unlock()
GetMutexCreate_KeepMu(p) ==
    /\ st[p].pc = "G_create"
    /\ LET m == Len(locks) + 1
           c == st[p].collection
       IN  /\ locks' = Append(locks, [name |-> c, holder |-> "none"])
           /\ mutexes' = [n \in DOMAIN mutexes \cup {c} |->
                             IF n = c THEN m ELSE mutexes[n]]
           /\ st' = [st EXCEPT ![p] = [@ EXCEPT !.pc = "M_lock", !.m = m]]
    /\ UNCHANGED <<fs, mu, ncalls, alone>>

\* m = &sync.Mutex{}; d.mutexes[collection] = m; return m, d.mu.Unlock() deferred
GetMutexCreate(p) ==
    /\ st[p].pc = "G_create"
    /\ LET m == Len(locks) + 1
           c == st[p].collection
       IN  /\ locks' = Append(locks, [name |-> c, holder |-> "none"])
           /\ mutexes' = [n \in DOMAIN mutexes \cup {c} |->
                             IF n = c THEN m ELSE mutexes[n]]
           /\ st' = [st EXCEPT ![p] = [@ EXCEPT !.pc = "M_lock", !.m = m]]
    /\ mu' = "none"
    /\ UNCHANGED <<fs, ncalls, alone>>

\* A mutex.Lock() that does not wait for the holder
MutexLock_NoWait(p) ==
    /\ st[p].pc = "M_lock"
    /\ locks' = [locks EXCEPT ![st[p].m].holder = p]
    /\ Goto(p, IF st[p].op = "Write" THEN "W_mkdir" ELSE "D_stat")
    /\ UNCHANGED <<fs, mu, mutexes, ncalls, alone>>

\* mutex.Lock() of Write and of Delete
MutexLock(p) ==
    /\ st[p].pc = "M_lock"
    /\ locks[st[p].m].holder = "none"
    /\ locks' = [locks EXCEPT ![st[p].m].holder = p]
    /\ Goto(p, IF st[p].op = "Write" THEN "W_mkdir" ELSE "D_stat")
    /\ UNCHANGED <<fs, mu, mutexes, ncalls, alone>>

(***************************************************************************)
(* Write                                                                   *)
(***************************************************************************)
\* A faulty variant: the check of the resource name left out.
WriteArgsOK_CollectionOnly(c, r) == c # ""

\* if collection == "" { return error }; if resources == "" { return error }
WriteArgsOK(c, r) == c # "" /\ r # ""

\* The call and its argument checks.
Write(p) ==
    \E c \in Names, r \in Names, v \in Values :
        /\ Begin(p, Frame("Write", c, r, v,
                          IF WriteArgsOK(c, r) THEN "G_lock" ELSE "ret",
                          IF WriteArgsOK(c, r) THEN NoErr ELSE "EValidation"))
        /\ UNCHANGED <<fs, mu, mutexes, locks>>

\* os.MkdirAll(dir, 0755), then json.MarshalIndent and the newline.
\* io = FALSE is the system call failing for a reason outside the model
\* (permissions, a full disk).
WriteMkdir(p) ==
    /\ st[p].pc = "W_mkdir"
    /\ \E io \in BOOLEAN :
        LET made == MkdirAll(fs, CollectionDir(st[p].collection))
        IN  IF ~io \/ ~made.ok
            THEN /\ Return(p, "EIO", NoValue)
                 /\ Unlock(p)
                 /\ UNCHANGED fs
            ELSE /\ fs' = made.fs
                 /\ IF Serializable(st[p].v)
                    THEN Goto(p, "W_open") /\ UNCHANGED locks
                    ELSE Return(p, "EMarshal", NoValue) /\ Unlock(p)
    /\ UNCHANGED <<mu, mutexes, ncalls, alone>>

\* ioutil.WriteFile(tmpPath, b, 0644), its open: O_WRONLY|O_CREATE|O_TRUNC.
WriteOpen(p) ==
    /\ st[p].pc = "W_open"
    /\ \E io \in BOOLEAN :
        LET tmp == TmpPath(FnlPath(st[p].collection, st[p].resource))
        IN  IF ~io \/ ~IsDir(fs, Parent(tmp)) \/ IsDir(fs, tmp)
            THEN /\ Return(p, "EIO", NoValue)
                 /\ Unlock(p)
                 /\ UNCHANGED fs
            ELSE /\ fs' = Put(fs, tmp, FileNode(<<>>))
                 /\ Goto(p, "W_write")
                 /\ UNCHANGED locks
    /\ UNCHANGED <<mu, mutexes, ncalls, alone>>

\* ioutil.WriteFile, its write and close.  The bytes go to the file that
\* was opened; when it has been unlinked meanwhile they show nowhere.  A
\* failing write leaves a proper prefix of b behind.
WriteData(p) ==
    /\ st[p].pc = "W_write"
    /\ LET tmp == TmpPath(FnlPath(st[p].collection, st[p].resource))
           b == Marshal(st[p].v)
           Store(d) == IF IsRegular(fs, tmp) THEN Put(fs, tmp, FileNode(d)) ELSE fs
       IN  \/ /\ fs' = Store(b)
              /\ Goto(p, "W_rename")
              /\ UNCHANGED locks
           \/ \E k \in 0..(Len(b) - 1) :
                /\ fs' = Store(SubSeq(b, 1, k))
                /\ Return(p, "EIO", NoValue)
                /\ Unlock(p)
    /\ UNCHANGED <<mu, mutexes, ncalls, alone>>

\* return os.Rename(tmpPath, fnlPath)
WriteRename(p) ==
    /\ st[p].pc = "W_rename"
    /\ \E io \in BOOLEAN :
        LET fnl == FnlPath(st[p].collection, st[p].resource)
            moved == Rename(fs, TmpPath(fnl), fnl)
        IN  IF ~io \/ ~moved.ok
            THEN Return(p, "EIO", NoValue) /\ UNCHANGED fs
            ELSE Return(p, "OK", NoValue) /\ fs' = moved.fs
    /\ Unlock(p)
    /\ UNCHANGED <<mu, mutexes, ncalls, alone>>

(***************************************************************************)
(* Read (takes no lock)                                                    *)
(***************************************************************************)
\* The call and its argument checks.
Read(p) ==
    \E c \in Names, r \in Names :
        /\ Begin(p, Frame("Read", c, r, NoValue,
                          IF c = "" \/ r = "" THEN "ret" ELSE "R_stat",
                          IF c = "" \/ r = "" THEN "EValidation" ELSE NoErr))
        /\ UNCHANGED <<fs, mu, mutexes, locks>>

\* if _, err := stat(record); err != nil { return err }
ReadStat(p) ==
    /\ st[p].pc = "R_stat"
    /\ IF Stat(fs, ReadRecord(st[p].collection, st[p].resource)).found
       THEN Goto(p, "R_read")
       ELSE Return(p, "ENotFound", NoValue)
    /\ UNCHANGED <<fs, mu, mutexes, locks, ncalls, alone>>

\* b, err := ioutil.ReadFile(record + ".json"); return json.Unmarshal(b, &v)
ReadData(p) ==
    /\ st[p].pc = "R_read"
    /\ LET got == ReadFile(fs, ReadTarget(ReadRecord(st[p].collection,
                                                     st[p].resource)))
           val == Unmarshal(got.data)
       IN  IF got.err # "OK" THEN Return(p, got.err, NoValue)
           ELSE IF ~val.ok THEN Return(p, "EUnmarshal", NoValue)
           ELSE Return(p, "OK", val.v)
    /\ UNCHANGED <<fs, mu, mutexes, locks, ncalls, alone>>

(***************************************************************************)
(* ReadAll (takes no lock)                                                 *)
(***************************************************************************)
\* The call and its argument check.
ReadAll(p) ==
    \E c \in Names :
        /\ Begin(p, Frame("ReadAll", c, "", NoValue,
                          IF c = "" THEN "ret" ELSE "A_stat",
                          IF c = "" THEN "EValidation" ELSE NoErr))
        /\ UNCHANGED <<fs, mu, mutexes, locks>>

\* if _, err := stat(dir); err != nil { return nil, err }
ReadAllStat(p) ==
    /\ st[p].pc = "A_stat"
    /\ IF Stat(fs, CollectionDir(st[p].collection)).found
       THEN Goto(p, "A_readdir")
       ELSE Return(p, "ENotFound", NoValue)
    /\ UNCHANGED <<fs, mu, mutexes, locks, ncalls, alone>>

\* files, err := ioutil.ReadDir(dir); an empty listing returns at once.
ReadAllReadDir(p) ==
    /\ st[p].pc = "A_readdir"
    /\ LET ls == ReadDir(fs, CollectionDir(st[p].collection))
       IN  IF ~ls.ok THEN Return(p, "ENotFound", NoValue)
           ELSE IF ls.names = <<>> THEN Return(p, "OK", NoValue)
           ELSE st' = [st EXCEPT ![p] = [@ EXCEPT !.pc = "A_loop",
                                                  !.files = ls.names]]
    /\ UNCHANGED <<fs, mu, mutexes, locks, ncalls, alone>>

\* One iteration of the loop over files: ioutil.ReadFile of the next entry;
\* an error drops the records; after the last entry, return records.
ReadAllLoop(p) ==
    /\ st[p].pc = "A_loop"
    /\ LET i == Len(st[p].records) + 1
           got == ReadFile(fs, Append(CollectionDir(st[p].collection),
                                      st[p].files[i]))
       IN  IF got.err # "OK"
           THEN st' = [st EXCEPT ![p] = [@ EXCEPT !.pc = "ret", !.err = got.err,
                                                  !.records = <<>>,
                                                  !.files = <<>>]]
           ELSE IF i = Len(st[p].files)
           THEN st' = [st EXCEPT ![p] =
                         [@ EXCEPT !.records = Append(@, got.data),
                                   !.pc = "ret", !.err = "OK"]]
           ELSE st' = [st EXCEPT ![p].records = Append(@, got.data)]
    /\ UNCHANGED <<fs, mu, mutexes, locks, ncalls, alone>>

(***************************************************************************)
(* Delete                                                                  *)
(***************************************************************************)
\* The call: no argument check, straight to getOrCreateMutex(collection).
Delete(p) ==
    \E c \in Names, r \in Names :
        /\ Begin(p, Frame("Delete", c, r, NoValue, "G_lock", NoErr))
        /\ UNCHANGED <<fs, mu, mutexes, locks>>

\* switch fi, err := stat(dir); case fi == nil, err != nil: return an error
DeleteStat(p) ==
    /\ st[p].pc = "D_stat"
    /\ LET fi == Stat(fs, DeleteDir(st[p].collection, st[p].resource))
       IN  IF fi.found
           THEN /\ st' = [st EXCEPT ![p] = [@ EXCEPT !.pc = "D_remove",
                                                     !.fi = fi]]
                /\ UNCHANGED locks
           ELSE /\ Return(p, "ENotFound", NoValue)
                /\ Unlock(p)
    /\ UNCHANGED <<fs, mu, mutexes, ncalls, alone>>

\* case fi.Mode().IsDir(): return os.RemoveAll(dir)
\* case fi.Mode().IsRegular(): return os.RemoveAll(dir + ".json")
DeleteRemove(p) ==
    /\ st[p].pc = "D_remove"
    /\ fs' = RemoveAll(fs, DeleteTarget(DeleteDir(st[p].collection,
                                                  st[p].resource), st[p].fi))
    /\ Return(p, "OK", NoValue)
    /\ Unlock(p)
    /\ UNCHANGED <<mu, mutexes, ncalls, alone>>

(***************************************************************************)
(* The system: New has found or created the root directory and made an     *)
(* empty registry.                                                         *)
(***************************************************************************)
\* The stores New may find under the root: a fresh directory, or what
\* completed Writes of an earlier run of the program left there.
Fresh == (Root :> DirNode)

Stored(f, c, r, v) ==
    Put(MkdirAll(f, CollectionDir(c)).fs, FnlPath(c, r), FileNode(Marshal(v)))

InitStores ==
    {Fresh,
     Stored(Fresh, "a", "a", "v1"),
     Stored(Stored(Stored(Fresh, "a", "a", "v1"), "a", "a.json", "v2"),
            "a.json", "a", "v2")}

Init ==
    /\ fs \in InitStores
    /\ mu = "none"
    /\ mutexes = <<>>
    /\ locks = <<>>
    /\ st = [p \in Procs |-> Frame("none", "", "", NoValue, "idle", NoErr)]
    /\ ncalls = 0
    /\ alone = [p \in Procs |-> FALSE]

Next ==
    \E p \in Procs :
        \/ Write(p) \/ WriteMkdir(p) \/ WriteOpen(p) \/ WriteData(p)
        \/ WriteRename(p)
        \/ Read(p) \/ ReadStat(p) \/ ReadData(p)
        \/ ReadAll(p) \/ ReadAllStat(p) \/ ReadAllReadDir(p) \/ ReadAllLoop(p)
        \/ Delete(p) \/ DeleteStat(p) \/ DeleteRemove(p)
        \/ GetMutexLock(p) \/ GetMutexLookup(p) \/ GetMutexCreate(p)
        \/ MutexLock(p)

\* The steps of caller p inside a call it has made (everything but the call
\* itself): the statements of Write, Read, ReadAll, Delete, getOrCreateMutex.
Proceed(p) ==
    \/ WriteMkdir(p) \/ WriteOpen(p) \/ WriteData(p) \/ WriteRename(p)
    \/ ReadStat(p) \/ ReadData(p)
    \/ ReadAllStat(p) \/ ReadAllReadDir(p) \/ ReadAllLoop(p)
    \/ DeleteStat(p) \/ DeleteRemove(p)
    \/ GetMutexLock(p) \/ GetMutexLookup(p) \/ GetMutexCreate(p)
    \/ MutexLock(p)

(***************************************************************************)
(* Construction: callers making New(dir, options) on what is at dir.       *)
(***************************************************************************)
\* Nothing at dir.
Absent == [q \in {} |-> DirNode]

\* What New may find at dir: nothing, a regular file, or a directory left
\* by an earlier run.
PreStores == {Absent, (Root :> FileNode(<<"x">>))} \cup InitStores

\* New: dir = filepath.Clean(dir), options, the Driver with empty mutexes
New(p) ==
    /\ Begin(p, Frame("New", "", "", NoValue, "N_stat", NoErr))
    /\ UNCHANGED <<fs, mu, mutexes, locks>>

\* if _, err := os.Stat(dir); err == nil { return &driver, nil }
NewStat(p) ==
    /\ st[p].pc = "N_stat"
    /\ IF OsStat(fs, Root).found
       THEN Return(p, "OK", NoValue)
       ELSE Goto(p, "N_mkdir")
    /\ UNCHANGED <<fs, mu, mutexes, locks, ncalls, alone>>

\* return &driver, os.MkdirAll(dir, 0755)
NewMkdir(p) ==
    /\ st[p].pc = "N_mkdir"
    /\ \E io \in BOOLEAN :
          LET made == MkdirAll(fs, Root)
          IN  IF io /\ made.ok
              THEN fs' = made.fs /\ Return(p, "OK", NoValue)
              ELSE UNCHANGED fs /\ Return(p, "EIO", NoValue)
    /\ UNCHANGED <<mu, mutexes, locks, ncalls, alone>>

InitNew ==
    /\ fs \in PreStores
    /\ mu = "none"
    /\ mutexes = <<>>
    /\ locks = <<>>
    /\ st = [p \in Procs |-> Frame("none", "", "", NoValue, "idle", NoErr)]
    /\ ncalls = 0
    /\ alone = [p \in Procs |-> FALSE]

NextNew == \E p \in Procs : New(p) \/ NewStat(p) \/ NewMkdir(p)

SpecNew == InitNew /\ [][NextNew]_vars

Spec == Init /\ [][Next]_vars

\* The Go scheduler runs every goroutine that can run, and a sync.Mutex that
\* stays free is given to a goroutine waiting for it: a caller whose next
\* statement stays enabled takes it.
FairSpec == Spec /\ \A p \in Procs : WF_vars(Proceed(p))

TypeOK ==
    /\ \A q \in DOMAIN fs : \A i \in 1..Len(q) :
           \E j \in 1..Len(NameOrder) : NameOrder[j] = q[i]
    /\ mu \in Procs \cup {"none"}
    /\ ncalls \in 0..MaxCalls

(***************************************************************************)
(* Vocabulary of the properties.                                           *)
(***************************************************************************)
Real == Names \ {""}

\* p has taken a step.
Stepped(p) == st'[p] # st[p]

\* p's step returns from its call.
Returns(p) == st[p].pc # "ret" /\ st'[p].pc = "ret"

Returned(p, op) == st[p].pc = "ret" /\ st[p].op = op

\* data is one complete serialization.
Complete(data) == \E v \in Values : Serializable(v) /\ data = Marshal(v)

\* The resource files of collection c: the files under a final name.
ResourceFiles(f, c) == {FnlPath(c, r) : r \in Real} \cap {q \in DOMAIN f : ~f[q].dir}

\* The paths at or beneath the directory of collection c.
Under(f, c) == {q \in DOMAIN f : IsPrefix(CollectionDir(c), q)}

\* f and g agree on every path of f outside gone, and g has nothing new.
SameExcept(f, g, gone) ==
    /\ DOMAIN g = DOMAIN f \ gone
    /\ \A q \in DOMAIN g : g[q] = f[q]

\* p holds the lock registered for its call's collection.
HoldsLock(p) ==
    /\ st[p].collection \in DOMAIN mutexes
    /\ locks[mutexes[st[p].collection]].holder = p

\* p is between its first and its last file-system access.
InIO(p) ==
    st[p].pc \in {"W_mkdir", "W_open", "W_write", "W_rename",
                  "R_stat", "R_read", "A_stat", "A_readdir", "A_loop",
                  "D_stat", "D_remove"}

(***************************************************************************)
(* C1.  Round trip: a Write(C,R,V) that returned success, followed with no *)
(* operation in between by Read(C,R,out), makes Read return success with   *)
(* out = V.  Stated of a Read that ran alone, after the Write of another   *)
(* caller had returned, the file still being as that Write left it.        *)
(***************************************************************************)
C1_RoundTrip ==
    \A p \in Procs : \A q \in Procs \ {p} :
        ( /\ Returned(q, "Write") /\ st[q].err = "OK"
          /\ Returned(p, "Read") /\ alone[p]
          /\ st[p].collection = st[q].collection
          /\ st[p].resource = st[q].resource
          /\ ReadFile(fs, FnlPath(st[q].collection, st[q].resource))
                 = [err |-> "OK", data |-> Marshal(st[q].v)] )
        => (st[p].err = "OK" /\ st[p].out = st[q].v)

(***************************************************************************)
(* C2.  Atomic visibility: in every reachable state every file under a     *)
(* final resource name root/C/R.json holds one complete serialization,     *)
(* and a step gives such a file new content only by committing the value   *)
(* of one Write(C,R,V) call: the file then holds Marshal(V), whole.        *)
(***************************************************************************)
FinalFilesComplete ==
    \A c \in Real : \A q \in ResourceFiles(fs, c) : Complete(fs[q].data)

CommitsOnly ==
    \A c \in Real, r \in Real :
        LET q == FnlPath(c, r)
        IN  (IsRegular(fs', q) /\ (~IsRegular(fs, q) \/ fs'[q] # fs[q]))
            => \E p \in Procs :
                   /\ st[p].op = "Write" /\ st[p].pc = "W_rename"
                   /\ st[p].collection = c /\ st[p].resource = r
                   /\ Serializable(st[p].v)
                   /\ fs'[q].data = Marshal(st[p].v)

C2_AtomicVisibility == []FinalFilesComplete /\ [][CommitsOnly]_vars

\* A Write has committed while another Write stands between its temporary
\* file and its rename.
C2_Witness ==
    \E p \in Procs : \E q \in Procs \ {p} :
        /\ st[p].pc = "W_rename"
        /\ IsRegular(fs, TmpPath(FnlPath(st[p].collection, st[p].resource)))
        /\ Returned(q, "Write") /\ st[q].err = "OK"
        /\ ReadFile(fs, FnlPath(st[q].collection, st[q].resource))
               = [err |-> "OK", data |-> Marshal(st[q].v)]

(***************************************************************************)
(* C3.  No reader observes a partially written file: every content a       *)
(* successful Read or ReadAll returns is the complete serialization of a   *)
(* committed value, that is, it was read from a file under a final         *)
(* resource name and is complete.                                          *)
(***************************************************************************)
C3_NoPartialRead ==
    \A p \in Procs :
        /\ (Returned(p, "ReadAll") /\ st[p].err = "OK")
           => \A i \in 1..Len(st[p].records) :
                  /\ \E r \in Real : st[p].files[i] = r \o ".json"
                  /\ Complete(st[p].records[i])
        /\ (Returned(p, "Read") /\ st[p].err = "OK") => Serializable(st[p].out)

(***************************************************************************)
(* C4.  Operations on the same collection are fully serialized: a call     *)
(* holds the lock of its collection from before its first file-system      *)
(* access until after its last, so no two calls on one collection are in   *)
(* their file-system work at the same time.                                *)
(***************************************************************************)
C4_Serialized ==
    \A p \in Procs :
        InIO(p) =>
            /\ HoldsLock(p)
            /\ \A q \in Procs \ {p} :
                   InIO(q) => st[q].collection # st[p].collection

(***************************************************************************)
(* C5.  After completed Writes and Deletes have left N resources in an     *)
(* existing collection C, ReadAll(C) returns success with exactly N blobs, *)
(* the multiset of the contents of the N resource files.  Stated of a      *)
(* ReadAll that ran with no other call active.                             *)
(***************************************************************************)
BagOfSeq(s) ==
    [x \in {s[i] : i \in DOMAIN s} |-> Cardinality({i \in DOMAIN s : s[i] = x})]

BagOfFiles(f, paths) ==
    [x \in {f[q].data : q \in paths} |-> Cardinality({q \in paths : f[q].data = x})]

C5_ReadAllExact ==
    \A p \in Procs :
        ( /\ Returned(p, "ReadAll") /\ alone[p]
          /\ st[p].collection # ""
          /\ IsDir(fs, CollectionDir(st[p].collection)) )
        => /\ st[p].err = "OK"
           /\ Len(st[p].records)
                  = Cardinality(ResourceFiles(fs, st[p].collection))
           /\ BagOfSeq(st[p].records)
                  = BagOfFiles(fs, ResourceFiles(fs, st[p].collection))

(***************************************************************************)
(* C6.  Delete(C,R) for a non-empty R whose file exists in C: it resolves  *)
(* to a regular file, returns success, R's file is gone afterwards, and    *)
(* every other file and directory of the store is as before.               *)
(***************************************************************************)
C6_DeleteStep ==
    \A p \in Procs :
        (Stepped(p) /\ st[p].op = "Delete" /\ st[p].resource # "") =>
            LET f == FnlPath(st[p].collection, st[p].resource)
            IN  /\ (st[p].pc = "D_stat" /\ IsRegular(fs, f))
                   => /\ st'[p].pc = "D_remove"
                      /\ ~st'[p].fi.dir
                      /\ fs' = fs
                /\ (st[p].pc = "D_remove" /\ ~st[p].fi.dir)
                   => /\ st'[p].pc = "ret"
                      /\ st'[p].err = "OK"
                      /\ SameExcept(fs, fs', {f} \cap DOMAIN fs)

C6_DeleteResource == [][C6_DeleteStep]_vars

\* Delete("a","a") has returned success: a/a.json is gone, its sibling
\* a/a.json.json and the collection a.json are still there.
C6_Witness ==
    \E p \in Procs :
        /\ Returned(p, "Delete") /\ st[p].err = "OK"
        /\ st[p].collection = "a" /\ st[p].resource = "a"
        /\ ~Exists(fs, FnlPath("a", "a"))
        /\ IsRegular(fs, FnlPath("a", "a.json"))
        /\ IsRegular(fs, FnlPath("a.json", "a"))

(***************************************************************************)
(* C7.  Delete(C,"") for a non-empty C whose directory exists returns      *)
(* success and removes the directory with everything in it, leaving the    *)
(* rest of the store as it was; a ReadAll(C) that finds the directory      *)
(* absent fails with not-found.                                            *)
(***************************************************************************)
C7_DeleteStep ==
    \A p \in Procs :
        (Stepped(p) /\ st[p].collection # "") =>
            LET dir == CollectionDir(st[p].collection)
            IN  /\ (st[p].op = "Delete" /\ st[p].resource = "")
                   => /\ (st[p].pc = "D_stat" /\ IsDir(fs, dir))
                         => /\ st'[p].pc = "D_remove"
                            /\ st'[p].fi.dir
                            /\ fs' = fs
                      /\ (st[p].pc = "D_remove" /\ st[p].fi.dir)
                         => /\ st'[p].pc = "ret"
                            /\ st'[p].err = "OK"
                            /\ SameExcept(fs, fs', Under(fs, st[p].collection))
                /\ (st[p].op = "ReadAll" /\ ~Exists(fs, dir))
                   => /\ st[p].pc = "A_stat"
                         => \/ st'[p].pc = "A_readdir"
                            \/ st'[p].pc = "ret" /\ st'[p].err = "ENotFound"
                      /\ st[p].pc = "A_readdir"
                         => st'[p].pc = "ret" /\ st'[p].err = "ENotFound"

C7_DeleteCollection == [][C7_DeleteStep]_vars

\* Delete("a","") has removed the collection a of the stored records, the
\* collection a.json is as it was, and a ReadAll("a") made afterwards has
\* failed with not-found.
C7_Witness ==
    \E p \in Procs : \E q \in Procs \ {p} :
        /\ Returned(p, "Delete") /\ st[p].err = "OK"
        /\ st[p].collection = "a" /\ st[p].resource = ""
        /\ Returned(q, "ReadAll") /\ st[q].err = "ENotFound" /\ alone[q]
        /\ st[q].collection = "a"
        /\ Under(fs, "a") = {}
        /\ ReadFile(fs, FnlPath("a.json", "a")) = [err |-> "OK", data |-> Marshal("v2")]

(***************************************************************************)
(* C8.  A Write with an empty collection name or an empty resource name    *)
(* returns a validation error at once, and no step of it changes the       *)
(* store.                                                                  *)
(***************************************************************************)
C8_WriteStep ==
    \A p \in Procs :
        ( /\ Stepped(p) /\ st'[p].op = "Write"
          /\ (st'[p].collection = "" \/ st'[p].resource = "") )
        => /\ st'[p].pc = "ret"
           /\ st'[p].err = "EValidation"
           /\ fs' = fs

C8_WriteValidation == [][C8_WriteStep]_vars

\* Both rejections have happened: an empty collection, an empty resource.
C8_Witness ==
    \E p \in Procs : \E q \in Procs \ {p} :
        /\ Returned(p, "Write") /\ st[p].err = "EValidation"
        /\ st[p].collection = "" /\ st[p].resource # ""
        /\ Returned(q, "Write") /\ st[q].err = "EValidation"
        /\ st[q].collection # "" /\ st[q].resource = ""
        /\ fs \in InitStores

(***************************************************************************)
(* C9.  Not-found leaves the store untouched: Read(C,R) when R's file does *)
(* not exist, ReadAll(C) when C's directory does not exist, and            *)
(* Delete(C,R) when neither root/C/R nor root/C/R.json exists each return  *)
(* an error, and no step of them changes the store.                        *)
(***************************************************************************)
C9_NotFoundStep ==
    \A p \in Procs :
        Stepped(p) =>
            /\ ( /\ st[p].op = "Read" /\ st[p].pc \in {"R_stat", "R_read"}
                 /\ ~Exists(fs, FnlPath(st[p].collection, st[p].resource)) )
               => /\ fs' = fs
                  /\ Returns(p) => st'[p].err # "OK"
            /\ ( /\ st[p].op = "ReadAll" /\ st[p].pc \in {"A_stat", "A_readdir"}
                 /\ ~Exists(fs, CollectionDir(st[p].collection)) )
               => /\ fs' = fs
                  /\ Returns(p) => st'[p].err # "OK"
            /\ ( /\ st[p].op = "Delete" /\ st[p].pc = "D_stat"
                 /\ ~Exists(fs, DeleteDir(st[p].collection, st[p].resource))
                 /\ ~Exists(fs, AddExt(DeleteDir(st[p].collection,
                                                 st[p].resource), ".json")) )
               => /\ fs' = fs
                  /\ Returns(p) /\ st'[p].err # "OK"

C9_NotFound == [][C9_NotFoundStep]_vars

(***************************************************************************)
(* C10.  Lock registry uniqueness: at most one lock is ever created for a  *)
(* collection name, and every getOrCreateMutex call for that name returns  *)
(* that one lock, the one the registry holds for the name.                 *)
(***************************************************************************)
C10_OneLockPerName ==
    /\ \A i \in DOMAIN locks : \A j \in DOMAIN locks :
           locks[i].name = locks[j].name => i = j
    /\ \A p \in Procs :
           st[p].m # 0 =>
               /\ st[p].collection \in DOMAIN mutexes
               /\ mutexes[st[p].collection] = st[p].m
               /\ locks[st[p].m].name = st[p].collection

\* Two callers made the first uses of a name concurrently: both are past
\* getOrCreateMutex with the same lock, one holds it, the other waits.
C10_Witness ==
    \E p \in Procs : \E q \in Procs \ {p} :
        /\ st[p].m # 0 /\ st[q].m = st[p].m
        /\ locks[st[p].m].holder = p
        /\ st[q].pc = "M_lock"
        /\ Len(locks) = 1

(***************************************************************************)
(* C11  Independence of collections.                                       *)
(***************************************************************************)
\* A caller inside a call that is neither idle nor returned.
Pending(p) == st[p].pc \notin {"idle", "ret"}

\* Caller p is inside the filesystem work of a Write or a Delete, under the
\* lock of its collection.
InLockedIO(p) ==
    /\ st[p].op \in {"Write", "Delete"}
    /\ InIO(p)
    /\ HoldsLock(p)

\* C11: while a caller sits (for as long as it likes) in its filesystem
\* work on collection A holding A's lock, every pending Write, Read, ReadAll
\* or Delete of another caller on a collection B # A has its next step
\* enabled: it is never made to wait by the stalled call, so it runs to
\* completion in the finitely many steps its own code takes.
C11_Independent ==
    \A p \in Procs : \A q \in Procs \ {p} :
        (/\ InLockedIO(p)
         /\ Pending(q)
         /\ st[q].collection # st[p].collection)
        => ENABLED Proceed(q)

\* A Write and a Delete on another collection have both returned success
\* while the other caller was still inside its locked filesystem work.
C11_Witness ==
    \E p \in Procs : \E q \in Procs \ {p} :
        /\ InLockedIO(p)
        /\ st[p].collection = "a"
        /\ Returned(q, "Write")
        /\ st[q].collection = "a.json"
        /\ st[q].err = "OK"
        /\ ~alone[q]

(***************************************************************************)
(* C12  Delete removes the file its stat resolved.                         *)
(***************************************************************************)
\* The path the FileInfo of stat(dir) belongs to: dir itself, or dir + ".json"
\* when the probe fell back.
Resolved(dir, fi) == Append(Parent(dir), fi.name)

\* p's step is the removing step of a Delete whose stat resolved to a
\* regular file that is still there.
C12_Removes(p) ==
    /\ Stepped(p)
    /\ st[p].op = "Delete"
    /\ st[p].pc = "D_remove"
    /\ ~st[p].fi.dir
    /\ IsRegular(fs, Resolved(DeleteDir(st[p].collection, st[p].resource),
                              st[p].fi))

\* C12: when Delete(C, R) has resolved root/C/R (or, falling back,
\* root/C/R.json) to an existing regular file and returns success, the
\* resolved file no longer exists, whether R was passed bare or already
\* carrying the extension.
C12_ResolvedFileRemoved ==
    [][\A p \in Procs :
          (C12_Removes(p) /\ st'[p].err = "OK")
          => ~Exists(fs', Resolved(DeleteDir(st[p].collection,
                                             st[p].resource), st[p].fi))]_vars

(***************************************************************************)
(* C13  Empty collection names are rejected before any filesystem access.  *)
(***************************************************************************)
\* p's step belongs to a call made with the empty collection name.
C13_EmptyCollectionStep(p) ==
    /\ Stepped(p)
    /\ st'[p].op # "none"
    /\ st'[p].collection = ""

\* C13: a Write, Read, ReadAll or Delete invoked with an empty collection
\* name never reaches a filesystem access and never changes the store, and
\* what it returns is the validation error; in particular it removes
\* neither the root directory nor a collection directory.
C13_EmptyCollectionRejected ==
    [][\A p \in Procs :
          C13_EmptyCollectionStep(p)
          => /\ fs' = fs
             /\ st'[p].pc \in {"ret", "G_lock", "G_lookup", "G_create", "M_lock"}
             /\ st'[p].pc = "ret" => st'[p].err = "EValidation"]_vars

(***************************************************************************)
(* C14  The registry lock is held only inside getOrCreateMutex.            *)
(***************************************************************************)
\* C14: whoever holds d.mu is at the lookup or at the creation of
\* getOrCreateMutex: it is not waiting for a collection lock, holds none,
\* and is not at a filesystem access.
C14_RegistryLockBrief ==
    \A p \in Procs :
        mu = p
        => /\ st[p].pc \in {"G_lookup", "G_create"}
           /\ st[p].pc # "M_lock"
           /\ ~InIO(p)
           /\ \A i \in 1..Len(locks) : locks[i].holder # p

\* One caller holds d.mu, about to create a lock, while the other is inside
\* its filesystem work under a collection lock.
C14_Witness ==
    \E p \in Procs : \E q \in Procs \ {p} :
        /\ mu = p
        /\ st[p].pc = "G_create"
        /\ InLockedIO(q)

(***************************************************************************)
(* C15  The registry only grows.                                           *)
(***************************************************************************)
\* C15: every step keeps each entry of the registry: a name that has a lock
\* keeps it, the entry still leads to the same lock object, and that object
\* is still the lock of that name.  No operation removes or replaces an
\* entry, Delete included.
C15_RegistryGrows ==
    [][\A c \in DOMAIN mutexes :
          /\ c \in DOMAIN mutexes'
          /\ mutexes'[c] = mutexes[c]
          /\ Len(locks') >= Len(locks)
          /\ locks'[mutexes[c]].name = locks[mutexes[c]].name]_vars

\* Delete("a", "") removed the directory of collection a and a later Write
\* recreated it, under the lock that was registered first.
C15_Witness ==
    \E p \in Procs : \E q \in Procs \ {p} :
        /\ Returned(p, "Delete")
        /\ st[p].collection = "a" /\ st[p].resource = "" /\ st[p].err = "OK"
        /\ Returned(q, "Write")
        /\ st[q].collection = "a" /\ st[q].err = "OK"
        /\ alone[q]
        /\ IsRegular(fs, FnlPath("a", st[q].resource))
        /\ mutexes["a"] = 1
        /\ Len(locks) = 1

(***************************************************************************)
(* C16  A failed Write leaves the final file as it was.                    *)
(***************************************************************************)
\* path is bound in g as it is in f: to the same node, or in neither.
SameAt(f, g, path) ==
    /\ Exists(f, path) <=> Exists(g, path)
    /\ Exists(f, path) => f[path] = g[path]

\* p's step is a statement of the body of Write (after mutex.Lock()).
C16_WriteBodyStep(p) ==
    /\ Stepped(p)
    /\ st[p].op = "Write"
    /\ st[p].pc \in {"W_mkdir", "W_open", "W_write", "W_rename"}

\* C16: a step of the body of Write(C, R, V) that changes what is bound to
\* root/C/R.json is the step that returns success.  So a Write returning an
\* error (from MkdirAll, MarshalIndent, WriteFile or Rename) has done
\* nothing to the file under the final name: it has its previous content
\* when it existed and is absent when it did not.
C16_FailedWriteKeepsFinal ==
    [][\A p \in Procs :
          (/\ C16_WriteBodyStep(p)
           /\ ~SameAt(fs, fs', FnlPath(st[p].collection, st[p].resource)))
          => (Returns(p) /\ st'[p].err = "OK")]_vars

\* A Write that ran alone returned an I/O error after writing its temporary
\* file completely (its rename failed); the final file has the earlier
\* content, which is not the value of this Write.
C16_Witness ==
    \E p \in Procs :
        /\ Returned(p, "Write")
        /\ st[p].err = "EIO"
        /\ alone[p]
        /\ IsRegular(fs, TmpPath(FnlPath(st[p].collection, st[p].resource)))
        /\ fs[TmpPath(FnlPath(st[p].collection, st[p].resource))].data
             = Marshal(st[p].v)
        /\ IsRegular(fs, FnlPath(st[p].collection, st[p].resource))
        /\ fs[FnlPath(st[p].collection, st[p].resource)].data # Marshal(st[p].v)

(***************************************************************************)
(* C17  Construction.                                                      *)
(***************************************************************************)
\* C17: when New returns without error the root is a directory; a New that
\* found the root path existing has changed nothing; and New returns an
\* error only from a failed directory creation.
C17_NewRoot ==
    [][\A p \in Procs :
          (Stepped(p) /\ st[p].op = "New" /\ Returns(p))
          => /\ st'[p].err = "OK" => IsDir(fs', Root)
             /\ Exists(fs, Root) => fs' = fs
             /\ st'[p].err # "OK" => (st[p].pc = "N_mkdir" /\ fs' = fs)]_vars

(***************************************************************************)
(* C18  Mutual exclusion of the mutators of one collection.                *)
(***************************************************************************)
\* p is between mutex.Lock() and the deferred mutex.Unlock() of a Write or
\* a Delete: at its MkdirAll, temporary-file write, rename, stat or remove.
InCritical(p) ==
    st[p].pc \in {"W_mkdir", "W_open", "W_write", "W_rename",
                  "D_stat", "D_remove"}

\* C18: no two callers are at the same time between acquiring and releasing
\* the lock in Write or Delete calls made with the same collection name, so
\* the MkdirAll, temporary-file write, rename and remove of two such calls
\* never interleave.
C18_MutualExclusion ==
    \A p \in Procs : \A q \in Procs \ {p} :
        (InCritical(p) /\ InCritical(q))
        => st[p].collection # st[q].collection

\* A Write has written its temporary file and not yet renamed it while a
\* Delete of the same collection waits at mutex.Lock().
C18_Witness ==
    \E p \in Procs : \E q \in Procs \ {p} :
        /\ st[p].op = "Write" /\ st[p].pc = "W_rename"
        /\ st[q].op = "Delete" /\ st[q].pc = "M_lock"
        /\ st[q].collection = st[p].collection
        /\ ~ENABLED MutexLock(q)

(***************************************************************************)
(* C19  The lock of C covers what is at or beneath root/C.                 *)
(***************************************************************************)
\* The step changes what is bound to some path at or beneath root/c.
ChangesUnder(c) ==
    \E path \in DOMAIN fs \cup DOMAIN fs' :
        /\ IsPrefix(CollectionDir(c), path)
        /\ ~SameAt(fs, fs', path)

\* C19: every step that creates, replaces or removes a file or directory at
\* or beneath root/C is taken by a caller whose call was made with
\* collection C and who holds the lock registered for C; a call made with
\* another collection argument, Delete("", C) for one, changes nothing there.
C19_LockCoversPaths ==
    [][\A c \in Real :
          ChangesUnder(c)
          => \E p \in Procs :
                /\ Stepped(p)
                /\ st[p].collection = c
                /\ HoldsLock(p)]_vars

(***************************************************************************)
(* C20  Deadlock freedom and termination.                                  *)
(***************************************************************************)
\* The collection locks p holds.
Held(p) == {i \in 1..Len(locks) : locks[i].holder = p}

\* A caller holds at most one collection lock, and none outside the body of
\* a Write or Delete: every return path has released it.
C20_LockDiscipline ==
    \A p \in Procs :
        /\ Cardinality(Held(p)) <= 1
        /\ Held(p) # {} => InCritical(p)

\* Whenever calls are pending, one of the pending callers can take a step.
C20_NoDeadlock ==
    (\E p \in Procs : Pending(p))
    => \E p \in Procs : Pending(p) /\ ENABLED Proceed(p)

\* C20: each caller holds at most one collection lock at a time and has
\* released it when it returns; no reachable state has every pending caller
\* blocked; and, every caller's steps being weakly fair, every Write, Read,
\* ReadAll and Delete that was invoked eventually returns.
C20_Terminates ==
    /\ []C20_LockDiscipline
    /\ []C20_NoDeadlock
    /\ \A p \in Procs : Pending(p) ~> (st[p].pc = "ret")

\* A Write and a Delete of one collection ran concurrently through their
\* locked bodies and both have returned success, the lock being free again.
C20_Witness ==
    \E p \in Procs : \E q \in Procs \ {p} :
        /\ Returned(p, "Write") /\ Returned(q, "Delete")
        /\ st[p].collection = st[q].collection
        /\ st[p].err = "OK" /\ st[q].err = "OK"
        /\ ~alone[p] /\ ~alone[q]
        /\ Len(locks) = 1
        /\ locks[1].holder = "none"

====
